---------------------------- MODULE Spec2Model ----------------------------
(***************************************************************************)
(* A model of the caregiver / carelog ETL pipeline:                        *)
(*   - src/src/dataTransformer.ts : transformCaregivers, transformCarelogs *)
(*     and parseDate (row coercion, one try/catch per row);                *)
(*   - src/src/database.ts        : initDatabase, insertCaregivers,        *)
(*     insertCarelogs, closeDatabasePool (PostgreSQL through a pool);      *)
(*   - src/README.md (574-685)    : runEtl and readCsv.                    *)
(*                                                                         *)
(* JavaScript values are tagged records, so that a string, undefined,      *)
(* null, a number, NaN, a boolean and a Date stay distinct values.  A      *)
(* string is the sequence of its characters, so that trim(), parseInt()    *)
(* and the Date parser are computed on the text.                           *)
(***************************************************************************)
EXTENDS Integers, Sequences, FiniteSets, TLC

(***************************************************************************)
(* Bounds of the model.                                                    *)
(***************************************************************************)
\* Longest CSV row sequence handed to a transform function.
MaxRows == 3

\* Longest record sequence handed to insertCaregivers / insertCarelogs.
MaxRecs == 3

\* Records per INSERT statement.  The code sets 1000 (database.ts 77 and
\* 139); the model runs the same loop with a small batch.
BATCH_SIZE == 2

\* Infrastructure faults (a lost connection, a failed statement) injected
\* in one behaviour.
MaxFaults == 1

\* Longest CSV file read by runEtl.
MaxFileRows == 3

(***************************************************************************)
(* JavaScript values.                                                      *)
(***************************************************************************)
Undefined == [k |-> "undefined"]
Null == [k |-> "null"]
NaN == [k |-> "nan"]
InvalidDate == [k |-> "date", valid |-> FALSE]

Str(s) == [k |-> "str", s |-> s]
Num(n) == [k |-> "num", n |-> n]
Bool(b) == [k |-> "bool", b |-> b]
DateOf(t) == [k |-> "date", valid |-> TRUE, t |-> t]

\* ToBoolean: what `x ? a : b`, `x || y`, `!x` and `x && y` test.
Truthy(v) ==
    CASE v.k = "undefined" -> FALSE
      [] v.k = "null" -> FALSE
      [] v.k = "nan" -> FALSE
      [] v.k = "str" -> v.s # <<>>
      [] v.k = "num" -> v.n # 0
      [] v.k = "bool" -> v.b
      [] v.k = "date" -> TRUE

\* a || b
OrElse(a, b) == IF Truthy(a) THEN a ELSE b

\* A completion: a returned value or a thrown error.
Return(v) == [thrown |-> FALSE, val |-> v]
Throw(e) == [thrown |-> TRUE, err |-> e]

(***************************************************************************)
(* Text: characters, String.prototype.trim, parseInt, the Date parser.     *)
(***************************************************************************)
Digits == <<"0", "1", "2", "3", "4", "5", "6", "7", "8", "9">>

IsDigit(c) == \E d \in 1..10 : Digits[d] = c

DigitVal(c) == (CHOOSE d \in 1..10 : Digits[d] = c) - 1

IsSpace(c) == c \in {" ", "\t"}

RECURSIVE TrimStart(_)
TrimStart(s) ==
    IF s # <<>> /\ IsSpace(Head(s)) THEN TrimStart(Tail(s)) ELSE s

RECURSIVE TrimEnd(_)
TrimEnd(s) ==
    IF s # <<>> /\ IsSpace(s[Len(s)])
    THEN TrimEnd(SubSeq(s, 1, Len(s) - 1))
    ELSE s

\* String.prototype.trim
Trim(s) == TrimEnd(TrimStart(s))

\* The value of the longest prefix of decimal digits of s, from acc.
RECURSIVE DigitsPrefix(_, _)
DigitsPrefix(s, acc) ==
    IF s # <<>> /\ IsDigit(Head(s))
    THEN DigitsPrefix(Tail(s), acc * 10 + DigitVal(Head(s)))
    ELSE acc

\* parseInt(string) with no radix: leading white space is skipped, one sign
\* is read, then the longest prefix of decimal digits; NaN when there is
\* none.  (A "0x" prefix, read as hexadecimal, is not in the strings drawn.)
parseInt(v) ==
    IF v.k # "str" THEN NaN
    ELSE LET t == TrimStart(v.s)
             neg == t # <<>> /\ Head(t) = "-"
             u == IF t # <<>> /\ Head(t) \in {"-", "+"} THEN Tail(t) ELSE t
         IN IF u = <<>> \/ ~IsDigit(Head(u)) THEN NaN
            ELSE IF neg THEN Num(0 - DigitsPrefix(u, 0))
            ELSE Num(DigitsPrefix(u, 0))

AllDigits(s) == \A n \in 1..Len(s) : IsDigit(s[n])

\* new Date(string) on the ISO date form YYYY-MM-DD: a Date whose time
\* value stands for that day (year * 10000 + month * 100 + day), and the
\* Invalid Date for every other text drawn here.
NewDate(s) ==
    IF /\ Len(s) = 10
       /\ s[5] = "-"
       /\ s[8] = "-"
       /\ AllDigits(SubSeq(s, 1, 4))
       /\ AllDigits(SubSeq(s, 6, 7))
       /\ AllDigits(SubSeq(s, 9, 10))
    THEN LET y == DigitsPrefix(SubSeq(s, 1, 4), 0)
             m == DigitsPrefix(SubSeq(s, 6, 7), 0)
             d == DigitsPrefix(SubSeq(s, 9, 10), 0)
         IN IF m \in 1..12 /\ d \in 1..31
            THEN DateOf(y * 10000 + m * 100 + d)
            ELSE InvalidDate
    ELSE InvalidDate

\* isNaN(date.getTime())
IsNaNTime(date) == ~date.valid

\* parseDate (dataTransformer.ts 81-92).  `!dateString` is tested first, so
\* undefined never reaches .trim(); a truthy value that is no string has no
\* .trim and raises a TypeError.
parseDate(dateString) ==
    IF ~Truthy(dateString) THEN Return(Null)
    ELSE IF dateString.k # "str" THEN Throw("TypeError")
    ELSE IF Trim(dateString.s) = <<>> \/ dateString.s = <<"N", "o", "n", "e">>
    THEN Return(Null)
    ELSE LET date == NewDate(dateString.s)
         IN IF IsNaNTime(date) THEN Throw("Invalid date") ELSE Return(date)


(***************************************************************************)
(* State.                                                                  *)
(***************************************************************************)
VARIABLES
    \* transformCaregivers / transformCarelogs (dataTransformer.ts)
    tpc,          \* "idle", "loop", "returned", "threw"
    tKind,        \* "caregivers", "carelogs" or "none"
    csvRows,      \* the argument: a sequence of raw rows
    tIdx,         \* rows consumed by the for..of loop
    transformed,  \* transformedCaregivers / transformedCarelogs
    tSrc,         \* history: the row index each pushed record came from
    tLog          \* the summary line: <<kept, total>>, or <<>> before it

tvars == <<tpc, tKind, csvRows, tIdx, transformed, tSrc, tLog>>

VARIABLES
    \* the PostgreSQL server
    tables,         \* the tables that exist
    caregiversTbl,  \* committed rows of caregivers
    carelogsTbl,    \* committed rows of carelogs
    txn,            \* the session's transaction: its state and working rows
    \* the pg Pool of the process (database.ts 9-16)
    pool,           \* [out: clients checked out, ended: pool.end() called]
    \* insertCaregivers / insertCarelogs (database.ts 75-193)
    lpc,            \* "idle", "connect", "begin", "loop", "commit",
                    \* "catch", "finally", "done"
    lKind,          \* "caregivers", "carelogs" or "none"
    lInput,         \* the argument: a sequence of typed records
    lI,             \* the loop variable i
    lErr,           \* the error caught or thrown, "none" without one
    lErrAt,         \* the step that raised it
    lResult,        \* "none", "ok" (resolved) or "threw" (rejected)
    \* initDatabase (database.ts 19-73)
    ipc,            \* "idle", "connect", "createCaregivers",
                    \* "createCarelogs", "release", "catch", "done"
    iResult,        \* "none", "ok" (resolved) or "threw" (rejected)
    \* runEtl (README.md 585-656) and its process
    pc,             \* the statement runEtl is at, "off" when it is not run
    files,          \* data/caregivers.csv and data/carelogs.csv
    caregiverCsvRows,
    carelogCsvRows,
    transformedCaregivers,
    transformedCarelogs,
    exitCode,       \* the exit status once pc = "exited"
    \* the environment
    faults,         \* infrastructure faults injected so far
    \* history
    lFaulted,       \* a fault was injected during the current call
    lStart,         \* the committed rows when the current call began
    prev,           \* outcome of the call before a repeated call
    sqlLog          \* the statements sent to the server, in order

dbvars == <<tables, caregiversTbl, carelogsTbl, txn, pool>>

lvars == <<lpc, lKind, lInput, lI, lErr, lErrAt, lResult>>

hvars == <<faults, lFaulted, lStart, prev, sqlLog>>

ivars == <<ipc, iResult>>

evars ==
    <<pc, files, caregiverCsvRows, carelogCsvRows, transformedCaregivers,
      transformedCarelogs, exitCode>>

\* Everything but the transformer's state.
nonT == <<dbvars, lvars, hvars, ivars, evars>>

\* Everything but the loader's and the server's state.
nonL == <<tvars, ivars, evars>>

vars == <<tvars, dbvars, lvars, hvars, ivars, evars>>

(***************************************************************************)
(* Raw CSV text drawn for the rows.                                        *)
(***************************************************************************)
TxtEmpty == <<>>
TxtBlank == <<" ">>
TxtNone == <<"N", "o", "n", "e">>
TxtTrue == <<"T", "r", "u", "e">>
TxtFalse == <<"F", "a", "l", "s", "e">>
TxtUpperTrue == <<"T", "R", "U", "E">>
TxtZero == <<"0">>
TxtZeroZero == <<"0", "0">>
TxtSeven == <<"7">>
TxtPadSeven == << " ", "7" >>
TxtMinusThree == <<"-", "3">>
TxtWord == <<"x">>
TxtDigitsWord == <<"1", "2", "x">>
TxtNoDate == <<"n", "/", "a">>
TxtBadMonth == <<"2", "0", "2", "4", "-", "1", "3", "-", "4", "5">>
TxtDay1 == <<"1", "9", "9", "0", "-", "0", "5", "-", "1", "7">>
TxtDay2 == <<"2", "0", "2", "4", "-", "0", "1", "-", "1", "5">>
TxtDay3 == <<"2", "0", "2", "4", "-", "0", "1", "-", "1", "6">>

\* A valid caregivers.csv row (CaregiverCsvRow, unnamed/part_000 1-20).
BaseCaregiverRow ==
    [franchisor_id |-> Str(<<"f", "1">>),
     agency_id |-> Str(<<"a", "1">>),
     subdomain |-> Str(<<"s", "u", "b">>),
     profile_id |-> Str(<<"p", "1">>),
     caregiver_id |-> Str(<<"c", "1">>),
     external_id |-> Str(<<"e", "1">>),
     first_name |-> Str(<<"A", "n", "n">>),
     last_name |-> Str(<<"L", "e", "e">>),
     email |-> Str(<<"a", "@", "x">>),
     phone_number |-> Str(<<"5", "5", "5">>),
     gender |-> Str(<<"F">>),
     applicant |-> Str(TxtTrue),
     birthday_date |-> Str(TxtDay1),
     onboarding_date |-> Str(TxtDay2),
     location_name |-> Str(<<"N", "o", "r", "t", "h">>),
     locations_id |-> Str(TxtSeven),
     applicant_status |-> Str(<<"n", "e", "w">>),
     status |-> Str(<<"a", "c", "t", "i", "v", "e">>)]

\* A valid carelogs.csv row (CarelogCsvRow, unnamed/part_000 22-38).
BaseCarelogRow ==
    [franchisor_id |-> Str(<<"f", "1">>),
     agency_id |-> Str(<<"a", "1">>),
     carelog_id |-> Str(<<"l", "1">>),
     caregiver_id |-> Str(<<"c", "1">>),
     parent_id |-> Str(<<"l", "0">>),
     start_datetime |-> Str(TxtDay2),
     end_datetime |-> Str(TxtDay3),
     clock_in_actual_datetime |-> Str(TxtDay2),
     clock_out_actual_datetime |-> Str(TxtDay3),
     clock_in_method |-> Str(TxtSeven),
     clock_out_method |-> Str(TxtSeven),
     status |-> Str(TxtSeven),
     split |-> Str(TxtFalse),
     documentation |-> Str(<<"n", "o", "t", "e">>),
     general_comment_char_count |-> Str(TxtSeven)]

DateFields ==
    {"birthday_date", "onboarding_date", "start_datetime", "end_datetime",
     "clock_in_actual_datetime", "clock_out_actual_datetime"}

IntFields ==
    {"locations_id", "clock_in_method", "clock_out_method",
     "general_comment_char_count"}

BoolFields == {"applicant", "split"}

PassFields ==
    {"franchisor_id", "agency_id", "profile_id", "caregiver_id", "carelog_id"}

\* The other raw values a cell of column f takes: a CSV cell is a string, or
\* undefined when the line has no such column.
RawAlternatives(f, isCarelog) ==
    IF f \in DateFields
    THEN {Undefined, Str(TxtEmpty), Str(TxtBlank), Str(TxtNone),
          Str(TxtNoDate), Str(TxtBadMonth)}
    ELSE IF f \in IntFields \/ (isCarelog /\ f = "status")
    THEN {Undefined, Str(TxtEmpty), Str(TxtZero), Str(TxtZeroZero),
          Str(TxtWord), Str(TxtDigitsWord), Str(TxtMinusThree),
          Str(TxtPadSeven)}
    ELSE IF f \in BoolFields
    THEN {Undefined, Str(TxtEmpty), Str(TxtFalse), Str(TxtUpperTrue)}
    ELSE IF f \in PassFields \/ f = "status"
    THEN {Undefined, Str(TxtEmpty), Str(<<"p", "2">>)}
    ELSE {Undefined, Str(TxtEmpty), Str(TxtNone)}

\* The rows drawn: the valid row, and the valid row with one cell changed.
OneCellChanged(base, isCarelog) ==
    {base} \cup
    UNION {{[base EXCEPT ![f] = v] : v \in RawAlternatives(f, isCarelog)} :
               f \in DOMAIN base}

CaregiverRowSet == OneCellChanged(BaseCaregiverRow, FALSE)

\* Carelog rows also come with both required timestamps changed at once.
CarelogRowSet ==
    OneCellChanged(BaseCarelogRow, TRUE) \cup
    {[BaseCarelogRow EXCEPT !.start_datetime = a, !.end_datetime = b] :
         a \in {Undefined, Str(TxtNoDate)}, b \in {Str(TxtNone), Str(TxtBadMonth)}}

SeqsUpTo(S, n) == UNION {[1..m -> S] : m \in 0..n}

\* The rows that make up the longer sequences: two valid rows that differ,
\* and rows with a bad date, an empty key and the "0" location.
CoreCaregiverRows ==
    {BaseCaregiverRow,
     [BaseCaregiverRow EXCEPT !.profile_id = Str(<<"p", "2">>)],
     [BaseCaregiverRow EXCEPT !.birthday_date = Str(TxtNoDate)],
     [BaseCaregiverRow EXCEPT !.profile_id = Str(TxtEmpty)],
     [BaseCaregiverRow EXCEPT !.locations_id = Str(TxtZero)]}

CoreCarelogRows ==
    {BaseCarelogRow,
     [BaseCarelogRow EXCEPT !.carelog_id = Str(<<"p", "2">>)],
     [BaseCarelogRow EXCEPT !.start_datetime = Str(TxtNone)],
     [BaseCarelogRow EXCEPT !.end_datetime = Str(TxtBadMonth)],
     [BaseCarelogRow EXCEPT !.start_datetime = Undefined],
     [BaseCarelogRow EXCEPT !.clock_in_actual_datetime = Str(TxtNoDate)]}

\* The arguments drawn for a transform function: every sequence of core
\* rows up to MaxRows long, and every single row.
CaregiverInputs ==
    SeqsUpTo(CoreCaregiverRows, MaxRows) \cup {<<r>> : r \in CaregiverRowSet}

CarelogInputs ==
    SeqsUpTo(CoreCarelogRows, MaxRows) \cup {<<r>> : r \in CarelogRowSet}

(***************************************************************************)
(* dataTransformer.ts: the coercion of one row.                            *)
(***************************************************************************)
\* x === 'True' ? true : x === 'False' ? false : null   (lines 21, 58)
TriState(v) ==
    IF v = Str(TxtTrue) THEN Bool(TRUE)
    ELSE IF v = Str(TxtFalse) THEN Bool(FALSE)
    ELSE Null

\* Variant: a date that does not parse becomes null.
OptionalDateOrNull(v) ==
    IF Truthy(v) /\ ~parseDate(v).thrown THEN parseDate(v) ELSE Return(Null)

\* x ? parseDate(x) : null   (lines 22, 23, 53, 54)
OptionalDate(v) == IF Truthy(v) THEN parseDate(v) ELSE Return(Null)

\* x ? parseInt(x) : null   (lines 55-57, 60)
OptionalInt(v) == IF Truthy(v) THEN parseInt(v) ELSE Null

\* The object literal of transformCaregivers (lines 9-28): its properties
\* are evaluated in order, and the first parseDate that throws ends it.
CoerceCaregiver(row) ==
    LET birthday == OptionalDate(row.birthday_date)
        onboarding == OptionalDate(row.onboarding_date)
    IN IF birthday.thrown THEN birthday
       ELSE IF onboarding.thrown THEN onboarding
       ELSE Return(
           [franchisor_id |-> row.franchisor_id,
            agency_id |-> row.agency_id,
            subdomain |-> OrElse(row.subdomain, Null),
            profile_id |-> row.profile_id,
            caregiver_id |-> row.caregiver_id,
            external_id |-> OrElse(row.external_id, Null),
            first_name |-> OrElse(row.first_name, Null),
            last_name |-> OrElse(row.last_name, Null),
            email |-> OrElse(row.email, Null),
            phone_number |-> OrElse(row.phone_number, Null),
            gender |-> OrElse(row.gender, Null),
            applicant |-> TriState(row.applicant),
            birthday_date |-> birthday.val,
            onboarding_date |-> onboarding.val,
            location_name |->
                IF row.location_name = Str(TxtNone) THEN Null
                ELSE OrElse(row.location_name, Null),
            locations_id |->
                IF Truthy(row.locations_id) /\ row.locations_id # Str(TxtZero)
                THEN parseInt(row.locations_id)
                ELSE Null,
            applicant_status |-> OrElse(row.applicant_status, Null),
            status |-> row.status])

\* Variant: the check of lines 64-66 left out.
RequireDatetimesNoCheck(rec) == Return(rec)

\* if (!transformed.start_datetime || !transformed.end_datetime) throw
\* (lines 64-66).
RequireDatetimes(rec) ==
    IF ~Truthy(rec.start_datetime) \/ ~Truthy(rec.end_datetime)
    THEN Throw("Missing required datetime fields")
    ELSE Return(rec)

\* The object literal of transformCarelogs (lines 45-61) and the check
\* after it (lines 64-66).
CoerceCarelog(row) ==
    LET start == parseDate(row.start_datetime)
        end == parseDate(row.end_datetime)
        clockIn == OptionalDate(row.clock_in_actual_datetime)
        clockOut == OptionalDate(row.clock_out_actual_datetime)
    IN IF start.thrown THEN start
       ELSE IF end.thrown THEN end
       ELSE IF clockIn.thrown THEN clockIn
       ELSE IF clockOut.thrown THEN clockOut
       ELSE RequireDatetimes(
           [franchisor_id |-> row.franchisor_id,
            agency_id |-> row.agency_id,
            carelog_id |-> row.carelog_id,
            caregiver_id |-> row.caregiver_id,
            parent_id |-> OrElse(row.parent_id, Null),
            start_datetime |-> start.val,
            end_datetime |-> end.val,
            clock_in_actual_datetime |-> clockIn.val,
            clock_out_actual_datetime |-> clockOut.val,
            clock_in_method |-> OptionalInt(row.clock_in_method),
            clock_out_method |-> OptionalInt(row.clock_out_method),
            status |-> OptionalInt(row.status),
            split |-> TriState(row.split),
            documentation |-> OrElse(row.documentation, Null),
            general_comment_char_count |->
                OptionalInt(row.general_comment_char_count)])

\* Variant: no catch block, a thrown coercion leaves the function.
TryPushNoCatch(c, out) ==
    IF c.thrown
    THEN [out |-> out, pushed |-> FALSE, escaped |-> TRUE]
    ELSE [out |-> Append(out, c.val), pushed |-> TRUE, escaped |-> FALSE]

\* Variant: unshift in place of push, the record goes to the front.
TryPushFront(c, out) ==
    IF c.thrown
    THEN [out |-> out, pushed |-> FALSE, escaped |-> FALSE]
    ELSE [out |-> <<c.val>> \o out, pushed |-> TRUE, escaped |-> FALSE]

\* One iteration's try { ...; out.push(transformed) } catch (error) { }
\* (lines 8-33 and 44-72): a completed coercion is pushed at the end of
\* out, a thrown one is swallowed by the empty catch block.
TryPush(c, out) ==
    IF c.thrown
    THEN [out |-> out, pushed |-> FALSE, escaped |-> FALSE]
    ELSE [out |-> Append(out, c.val), pushed |-> TRUE, escaped |-> FALSE]

(***************************************************************************)
(* dataTransformer.ts: the two loops.                                      *)
(***************************************************************************)
\* The entry of a transform function: an empty output array (lines 5, 41).
EnterTransform(kind, rows) ==
    /\ tpc' = "loop"
    /\ tKind' = kind
    /\ csvRows' = rows
    /\ tIdx' = 0
    /\ transformed' = <<>>
    /\ tSrc' = <<>>
    /\ tLog' = <<>>

\* One iteration of for (const row of csvRows) with coercion `coerce`.
LoopBody(c) ==
    LET r == TryPush(c, transformed)
    IN /\ transformed' = r.out
       /\ tSrc' = IF r.pushed THEN Append(tSrc, tIdx + 1) ELSE tSrc
       /\ tpc' = IF r.escaped THEN "threw" ELSE "loop"
       /\ tIdx' = tIdx + 1
       /\ UNCHANGED <<tKind, csvRows, tLog>>

\* transformCaregivers, lines 7-34.
TransformCaregiversRow ==
    /\ tpc = "loop"
    /\ tKind = "caregivers"
    /\ tIdx < Len(csvRows)
    /\ LoopBody(CoerceCaregiver(csvRows[tIdx + 1]))
    /\ UNCHANGED nonT

\* transformCarelogs, lines 43-73.
TransformCarelogsRow ==
    /\ tpc = "loop"
    /\ tKind = "carelogs"
    /\ tIdx < Len(csvRows)
    /\ LoopBody(CoerceCarelog(csvRows[tIdx + 1]))
    /\ UNCHANGED nonT

\* The summary line and the return (lines 36-37 and 75-76).
TransformReturn ==
    /\ tpc = "loop"
    /\ tIdx = Len(csvRows)
    /\ tLog' = <<Len(transformed), Len(csvRows)>>
    /\ tpc' = "returned"
    /\ UNCHANGED <<tKind, csvRows, tIdx, transformed, tSrc>>
    /\ UNCHANGED nonT

(***************************************************************************)
(* The transformer on its own: any caller, any rows.                       *)
(***************************************************************************)
TransformIdle ==
    /\ tpc = "idle"
    /\ tKind = "none"
    /\ csvRows = <<>>
    /\ tIdx = 0
    /\ transformed = <<>>
    /\ tSrc = <<>>
    /\ tLog = <<>>

CallTransformCaregivers ==
    /\ tpc = "idle"
    /\ \E rows \in CaregiverInputs :
           EnterTransform("caregivers", rows)
    /\ UNCHANGED nonT

CallTransformCarelogs ==
    /\ tpc = "idle"
    /\ \E rows \in CarelogInputs :
           EnterTransform("carelogs", rows)
    /\ UNCHANGED nonT


(***************************************************************************)
(* database.ts: what a record becomes on its way into a table.             *)
(***************************************************************************)
DigitChar(d) == Digits[d + 1]

Pad2(n) == <<DigitChar(n \div 10), DigitChar(n % 10)>>

Pad4(n) == Pad2(n \div 100) \o Pad2(n % 100)

\* Date.prototype.toISOString: a RangeError on the Invalid Date, a
\* TypeError on a value that is no Date.
toISOString(v) ==
    IF v.k # "date" THEN Throw("TypeError")
    ELSE IF ~v.valid THEN Throw("RangeError")
    ELSE Return(Str(Pad4(v.t \div 10000) \o <<"-">> \o Pad2((v.t \div 100) % 100)
                    \o <<"-">> \o Pad2(v.t % 100)
                    \o <<"T", "0", "0", ":", "0", "0", ":", "0", "0", ".",
                         "0", "0", "0", "Z">>))

\* The text before the first "T": .split('T')[0].
RECURSIVE BeforeT(_)
BeforeT(s) ==
    IF s = <<>> \/ Head(s) = "T" THEN <<>>
    ELSE <<Head(s)>> \o BeforeT(Tail(s))

\* d ? d.toISOString().split('T')[0] : null   (line 105)
DayParam(d) ==
    IF ~Truthy(d) THEN Return(Null)
    ELSE LET iso == toISOString(d)
         IN IF iso.thrown THEN iso ELSE Return(Str(BeforeT(iso.val.s)))

\* d ? d.toISOString() : null   (lines 106, 162, 163)
StampParam(d) == IF ~Truthy(d) THEN Return(Null) ELSE toISOString(d)

\* What pg sends for a parameter: undefined goes as NULL.
SqlParam(v) == IF v = Undefined THEN Null ELSE v

\* The 18 values of one caregiver (lines 92-111), as the row they make.
CaregiverValues(c) ==
    LET birthday == DayParam(c.birthday_date)
        onboarding == StampParam(c.onboarding_date)
    IN IF birthday.thrown THEN birthday
       ELSE IF onboarding.thrown THEN onboarding
       ELSE Return(
           [franchisor_id |-> SqlParam(c.franchisor_id),
            agency_id |-> SqlParam(c.agency_id),
            subdomain |-> SqlParam(c.subdomain),
            profile_id |-> SqlParam(c.profile_id),
            caregiver_id |-> SqlParam(c.caregiver_id),
            external_id |-> SqlParam(c.external_id),
            first_name |-> SqlParam(c.first_name),
            last_name |-> SqlParam(c.last_name),
            email |-> SqlParam(c.email),
            phone_number |-> SqlParam(c.phone_number),
            gender |-> SqlParam(c.gender),
            applicant |-> SqlParam(c.applicant),
            birthday_date |-> birthday.val,
            onboarding_date |-> onboarding.val,
            location_name |-> SqlParam(c.location_name),
            locations_id |-> SqlParam(c.locations_id),
            applicant_status |-> SqlParam(c.applicant_status),
            status |-> SqlParam(c.status)])

\* The 15 values of one carelog (lines 154-170): start_datetime and
\* end_datetime are dereferenced without a test.
CarelogValues(c) ==
    LET start == toISOString(c.start_datetime)
        end == toISOString(c.end_datetime)
        clockIn == StampParam(c.clock_in_actual_datetime)
        clockOut == StampParam(c.clock_out_actual_datetime)
    IN IF start.thrown THEN start
       ELSE IF end.thrown THEN end
       ELSE IF clockIn.thrown THEN clockIn
       ELSE IF clockOut.thrown THEN clockOut
       ELSE Return(
           [franchisor_id |-> SqlParam(c.franchisor_id),
            agency_id |-> SqlParam(c.agency_id),
            carelog_id |-> SqlParam(c.carelog_id),
            caregiver_id |-> SqlParam(c.caregiver_id),
            parent_id |-> SqlParam(c.parent_id),
            start_datetime |-> start.val,
            end_datetime |-> end.val,
            clock_in_actual_datetime |-> clockIn.val,
            clock_out_actual_datetime |-> clockOut.val,
            clock_in_method |-> SqlParam(c.clock_in_method),
            clock_out_method |-> SqlParam(c.clock_out_method),
            status |-> SqlParam(c.status),
            split |-> SqlParam(c.split),
            documentation |-> SqlParam(c.documentation),
            general_comment_char_count |->
                SqlParam(c.general_comment_char_count)])

\* batch.flatMap(...) : the rows of a batch, or the first error thrown
\* while building them.
RECURSIVE BatchValues(_, _)
BatchValues(kind, batch) ==
    IF batch = <<>> THEN Return(<<>>)
    ELSE LET first == IF kind = "caregivers"
                      THEN CaregiverValues(Head(batch))
                      ELSE CarelogValues(Head(batch))
         IN IF first.thrown THEN first
            ELSE LET rest == BatchValues(kind, Tail(batch))
                 IN IF rest.thrown THEN rest
                    ELSE Return(<<first.val>> \o rest.val)

\* Variant: the end index taken as inclusive.
SliceInclusive(recs, i, j) ==
    SubSeq(recs, i + 1, IF j + 1 < Len(recs) THEN j + 1 ELSE Len(recs))

\* caregivers.slice(i, i + BATCH_SIZE), i counted from 0.
Slice(recs, i, j) ==
    SubSeq(recs, i + 1, IF j < Len(recs) THEN j ELSE Len(recs))

(***************************************************************************)
(* The PostgreSQL server: the tables of initDatabase (database.ts 23-65)   *)
(* and INSERT ... ON CONFLICT (key) DO NOTHING.                            *)
(***************************************************************************)
NotNullColumns(kind) ==
    IF kind = "caregivers"
    THEN {"franchisor_id", "agency_id", "profile_id", "caregiver_id"}
    ELSE {"franchisor_id", "agency_id", "carelog_id", "caregiver_id",
          "start_datetime", "end_datetime"}

IntColumns(kind) ==
    IF kind = "caregivers"
    THEN {"locations_id"}
    ELSE {"clock_in_method", "clock_out_method", "status",
          "general_comment_char_count"}

PrimaryKey(kind) == IF kind = "caregivers" THEN "profile_id" ELSE "carelog_id"

\* A parameter the server cannot read as the column's type: NaN, sent as
\* the text "NaN", is no INT.
BadInput(kind, row) == \E col \in IntColumns(kind) : row[col] = NaN

NullViolation(kind, row) == \E col \in NotNullColumns(kind) : row[col] = Null

\* ON CONFLICT (profile_id) / (carelog_id): the arbiter is the primary key
\* alone.
KeyConflict(kind, tbl, row) ==
    \E old \in tbl : old[PrimaryKey(kind)] = row[PrimaryKey(kind)]

\* Variant: caregiver_id declared without UNIQUE.
UniqueOmitted(kind, tbl, row) == FALSE

\* caregiver_id VARCHAR(255) NOT NULL UNIQUE (line 29).
UniqueViolation(kind, tbl, row) ==
    /\ kind = "caregivers"
    /\ \E old \in tbl : old.caregiver_id = row.caregiver_id

\* Variant: DO UPDATE, the proposed row replaces the stored one.
OnConflictUpdate(kind, tbl, row) ==
    {old \in tbl : old[PrimaryKey(kind)] # row[PrimaryKey(kind)]} \cup {row}

\* What the server does with a row that conflicts on the primary key:
\* DO NOTHING keeps the table as it is.
OnConflict(kind, tbl, row) == tbl

\* Variant: a plain INSERT with no ON CONFLICT clause, a key that is in the
\* table is a unique violation.
RECURSIVE InsertRowsPlain(_, _, _)
InsertRowsPlain(kind, tbl, rows) ==
    IF rows = <<>> THEN [ok |-> TRUE, tbl |-> tbl]
    ELSE LET row == Head(rows)
         IN IF NullViolation(kind, row)
            THEN [ok |-> FALSE, err |-> "not_null_violation"]
            ELSE IF KeyConflict(kind, tbl, row) \/ UniqueViolation(kind, tbl, row)
            THEN [ok |-> FALSE, err |-> "unique_violation"]
            ELSE InsertRowsPlain(kind, tbl \cup {row}, Tail(rows))

\* Variant: a key proposed twice in one statement is an error, as it is for
\* ON CONFLICT ... DO UPDATE.
RECURSIVE InsertRowsOnce(_, _, _)
InsertRowsOnce(kind, tbl, rows) ==
    IF rows = <<>> THEN [ok |-> TRUE, tbl |-> tbl]
    ELSE LET row == Head(rows)
         IN IF NullViolation(kind, row)
            THEN [ok |-> FALSE, err |-> "not_null_violation"]
            ELSE IF \E n \in 2..Len(rows) :
                        rows[n][PrimaryKey(kind)] = row[PrimaryKey(kind)]
            THEN [ok |-> FALSE, err |-> "cardinality_violation"]
            ELSE IF KeyConflict(kind, tbl, row)
            THEN InsertRowsOnce(kind, OnConflict(kind, tbl, row), Tail(rows))
            ELSE IF UniqueViolation(kind, tbl, row)
            THEN [ok |-> FALSE, err |-> "unique_violation"]
            ELSE InsertRowsOnce(kind, tbl \cup {row}, Tail(rows))

\* The rows of one INSERT in order: NOT NULL is checked on every proposed
\* row, a row whose key is in the table (or earlier in the statement) is
\* skipped, and the rest are inserted, each checked against the unique
\* index.  The result is the table after the statement, or its error.
RECURSIVE InsertRows(_, _, _)
InsertRows(kind, tbl, rows) ==
    IF rows = <<>> THEN [ok |-> TRUE, tbl |-> tbl]
    ELSE LET row == Head(rows)
         IN IF NullViolation(kind, row)
            THEN [ok |-> FALSE, err |-> "not_null_violation"]
            ELSE IF KeyConflict(kind, tbl, row)
            THEN InsertRows(kind, OnConflict(kind, tbl, row), Tail(rows))
            ELSE IF UniqueViolation(kind, tbl, row)
            THEN [ok |-> FALSE, err |-> "unique_violation"]
            ELSE InsertRows(kind, tbl \cup {row}, Tail(rows))

\* Variant: the carelogs table declared without its foreign key.
ForeignKeyOmitted(kind, before, after, caregivers) == FALSE

\* FOREIGN KEY (caregiver_id) REFERENCES caregivers(caregiver_id) (line 63),
\* checked at the end of the statement on the rows it inserted.
ForeignKeyViolation(kind, before, after, caregivers) ==
    /\ kind = "carelogs"
    /\ \E row \in after \ before :
           ~(\E cg \in caregivers : cg.caregiver_id = row.caregiver_id)

\* One INSERT statement on working tables w: the new working tables, or the
\* error that leaves them as they were.
ExecInsert(kind, w, rows) ==
    LET tbl == IF kind = "caregivers" THEN w.caregivers ELSE w.carelogs
    IN IF kind \notin tables
       THEN [ok |-> FALSE, err |-> "undefined_table"]
       ELSE IF \E n \in 1..Len(rows) : BadInput(kind, rows[n])
       THEN [ok |-> FALSE, err |-> "invalid_text_representation"]
       ELSE LET r == InsertRows(kind, tbl, rows)
            IN IF ~r.ok THEN r
               ELSE IF ForeignKeyViolation(kind, tbl, r.tbl, w.caregivers)
               THEN [ok |-> FALSE, err |-> "foreign_key_violation"]
               ELSE [ok |-> TRUE,
                     w |-> IF kind = "caregivers"
                           THEN [w EXCEPT !.caregivers = r.tbl]
                           ELSE [w EXCEPT !.carelogs = r.tbl]]

NoTxn == [st |-> "none", caregivers |-> {}, carelogs |-> {}]

\* max: 20 (database.ts 15).
PoolMax == 20

(***************************************************************************)
(* database.ts: insertCaregivers and insertCarelogs.                       *)
(***************************************************************************)
LogEntry(op, table, rows, res) ==
    [op |-> op, table |-> table, rows |-> rows, res |-> res]

\* The entry of insertCaregivers / insertCarelogs.
EnterInsert(kind, recs) ==
    /\ lpc' = "connect"
    /\ lKind' = kind
    /\ lInput' = recs
    /\ lI' = 0
    /\ lErr' = "none"
    /\ lErrAt' = "none"
    /\ lResult' = "none"
    /\ lFaulted' = FALSE
    /\ lStart' = [caregivers |-> caregiversTbl, carelogs |-> carelogsTbl]

\* An injected fault: the awaited call rejects and has had no effect.
Fault ==
    /\ faults < MaxFaults
    /\ faults' = faults + 1
    /\ lFaulted' = TRUE

NoFault == UNCHANGED <<faults, lFaulted>>

\* const client = await pool.connect()   (lines 76, 138): before the try,
\* so a rejection leaves the function at once.
InsertConnect ==
    /\ lpc = "connect"
    /\ ~pool.ended
    /\ pool.out < PoolMax
    /\ \/ /\ pool' = [pool EXCEPT !.out = @ + 1]
          /\ lpc' = "begin"
          /\ NoFault
          /\ UNCHANGED <<lErr, lErrAt, lResult>>
       \/ /\ Fault
          /\ lpc' = "done"
          /\ lErr' = "connection_error"
          /\ lErrAt' = "connect"
          /\ lResult' = "threw"
          /\ UNCHANGED pool
    /\ UNCHANGED <<tables, caregiversTbl, carelogsTbl, txn>>
    /\ UNCHANGED <<lKind, lInput, lI, lStart, prev, sqlLog>>
    /\ UNCHANGED nonL

\* await client.query('BEGIN')   (lines 80, 142).
InsertBegin ==
    /\ lpc = "begin"
    /\ \/ /\ txn' = [st |-> "open",
                     caregivers |-> caregiversTbl,
                     carelogs |-> carelogsTbl]
          /\ sqlLog' = Append(sqlLog, LogEntry("BEGIN", lKind, <<>>, "ok"))
          /\ lpc' = "loop"
          /\ NoFault
          /\ UNCHANGED <<lErr, lErrAt>>
       \/ /\ Fault
          /\ sqlLog' = Append(sqlLog, LogEntry("BEGIN", lKind, <<>>, "fault"))
          /\ lpc' = "catch"
          /\ lErr' = "connection_error"
          /\ lErrAt' = "begin"
          /\ UNCHANGED txn
    /\ UNCHANGED <<tables, caregiversTbl, carelogsTbl, pool>>
    /\ UNCHANGED <<lKind, lInput, lI, lResult, lStart, prev>>
    /\ UNCHANGED nonL

\* One iteration of the batch loop (lines 82-123, 144-182): the slice, its
\* values, and the awaited INSERT.  A thrown error, in building the values
\* or from the statement, goes to the catch block.
InsertBatch(kind) ==
    /\ lpc = "loop"
    /\ lKind = kind
    /\ lI < Len(lInput)
    /\ LET batch == Slice(lInput, lI, lI + BATCH_SIZE)
           values == BatchValues(kind, batch)
       IN IF values.thrown
          THEN /\ lpc' = "catch"
               /\ lErr' = values.err
               /\ lErrAt' = "values"
               /\ NoFault
               /\ UNCHANGED <<txn, lI, sqlLog>>
          ELSE \/ LET r == ExecInsert(kind, txn, values.val)
                  IN /\ sqlLog' = Append(sqlLog,
                            LogEntry("INSERT", kind, values.val,
                                     IF r.ok THEN "ok" ELSE "error"))
                     /\ NoFault
                     /\ IF r.ok
                        THEN /\ txn' = r.w
                             /\ lI' = lI + BATCH_SIZE
                             /\ UNCHANGED <<lpc, lErr, lErrAt>>
                        ELSE /\ txn' = [txn EXCEPT !.st = "aborted"]
                             /\ lpc' = "catch"
                             /\ lErr' = r.err
                             /\ lErrAt' = "insert"
                             /\ UNCHANGED lI
               \/ /\ Fault
                  /\ sqlLog' = Append(sqlLog,
                         LogEntry("INSERT", kind, values.val, "fault"))
                  /\ lpc' = "catch"
                  /\ lErr' = "connection_error"
                  /\ lErrAt' = "insert"
                  /\ UNCHANGED <<txn, lI>>
    /\ UNCHANGED <<tables, caregiversTbl, carelogsTbl, pool>>
    /\ UNCHANGED <<lKind, lInput, lResult, lStart, prev>>
    /\ UNCHANGED nonL

\* insertCaregivers, lines 82-123.
InsertCaregiversBatch == InsertBatch("caregivers")

\* insertCarelogs, lines 144-182.
InsertCarelogsBatch == InsertBatch("carelogs")

\* await client.query('COMMIT') after the loop (lines 125, 184).
InsertCommit ==
    /\ lpc = "loop"
    /\ lI >= Len(lInput)
    /\ \/ /\ caregiversTbl' = txn.caregivers
          /\ carelogsTbl' = txn.carelogs
          /\ txn' = NoTxn
          /\ sqlLog' = Append(sqlLog, LogEntry("COMMIT", lKind, <<>>, "ok"))
          /\ lpc' = "finally"
          /\ NoFault
          /\ UNCHANGED <<lErr, lErrAt>>
       \/ /\ Fault
          /\ sqlLog' = Append(sqlLog, LogEntry("COMMIT", lKind, <<>>, "fault"))
          /\ lpc' = "catch"
          /\ lErr' = "connection_error"
          /\ lErrAt' = "commit"
          /\ UNCHANGED <<caregiversTbl, carelogsTbl, txn>>
    /\ UNCHANGED <<tables, pool>>
    /\ UNCHANGED <<lKind, lInput, lI, lResult, lStart, prev>>
    /\ UNCHANGED nonL

\* Variant: the catch block keeps the work of the statements that
\* succeeded before the failure, as a commit after every batch would.
InsertRollbackKeepingWork ==
    /\ lpc = "catch"
    /\ caregiversTbl' = IF txn.st = "none" THEN caregiversTbl
                        ELSE txn.caregivers
    /\ carelogsTbl' = IF txn.st = "none" THEN carelogsTbl ELSE txn.carelogs
    /\ txn' = NoTxn
    /\ lpc' = "finally"
    /\ sqlLog' = Append(sqlLog, LogEntry("COMMIT", lKind, <<>>, "ok"))
    /\ NoFault
    /\ UNCHANGED <<lErr, lErrAt>>
    /\ UNCHANGED <<tables, pool>>
    /\ UNCHANGED <<lKind, lInput, lI, lResult, lStart, prev>>
    /\ UNCHANGED nonL

\* catch (err) { await client.query('ROLLBACK'); ...; throw err }
\* (lines 126-129, 185-188).  A ROLLBACK that rejects (the connection is
\* gone, and the server has dropped the transaction) replaces err.
InsertRollback ==
    /\ lpc = "catch"
    /\ txn' = NoTxn
    /\ lpc' = "finally"
    /\ \/ /\ sqlLog' = Append(sqlLog, LogEntry("ROLLBACK", lKind, <<>>, "ok"))
          /\ NoFault
          /\ UNCHANGED <<lErr, lErrAt>>
       \/ /\ Fault
          /\ sqlLog' = Append(sqlLog,
                 LogEntry("ROLLBACK", lKind, <<>>, "fault"))
          /\ lErr' = "connection_error"
          /\ lErrAt' = "rollback"
    /\ UNCHANGED <<tables, caregiversTbl, carelogsTbl, pool>>
    /\ UNCHANGED <<lKind, lInput, lI, lResult, lStart, prev>>
    /\ UNCHANGED nonL

\* finally { client.release() } and the end of the call (lines 130-133,
\* 189-193): resolved without an error, rejected with one.
InsertFinally ==
    /\ lpc = "finally"
    /\ pool' = [pool EXCEPT !.out = @ - 1]
    /\ lResult' = IF lErr = "none" THEN "ok" ELSE "threw"
    /\ lpc' = "done"
    /\ UNCHANGED <<tables, caregiversTbl, carelogsTbl, txn>>
    /\ UNCHANGED <<lKind, lInput, lI, lErr, lErrAt>>
    /\ UNCHANGED hvars
    /\ UNCHANGED nonL

LoaderStep ==
    \/ InsertConnect
    \/ InsertBegin
    \/ InsertCaregiversBatch
    \/ InsertCarelogsBatch
    \/ InsertCommit
    \/ InsertRollback
    \/ InsertFinally

(***************************************************************************)
(* The loader on its own: any store the constraints allow, any records,    *)
(* and the same call made again.                                           *)
(***************************************************************************)
CaregiverRecord(pid, cid, name) ==
    CoerceCaregiver([BaseCaregiverRow EXCEPT
                         !.profile_id = Str(pid),
                         !.caregiver_id = Str(cid),
                         !.first_name = Str(name)]).val

CarelogRecord(lid, cid, doc) ==
    CoerceCarelog([BaseCarelogRow EXCEPT
                       !.carelog_id = Str(lid),
                       !.caregiver_id = Str(cid),
                       !.documentation = Str(doc)]).val

\* Caregivers: two with the same profile_id and different names, one more
\* with its own keys, one whose caregiver_id is the first's under another
\* profile_id, and one with no franchisor_id.
CgAnn == CaregiverRecord(<<"p", "1">>, <<"c", "1">>, <<"A", "n", "n">>)
CgAnnRenamed == CaregiverRecord(<<"p", "1">>, <<"c", "1">>, <<"B", "o", "b">>)
CgBea == CaregiverRecord(<<"p", "2">>, <<"c", "2">>, <<"B", "e", "a">>)
CgClash == CaregiverRecord(<<"p", "3">>, <<"c", "1">>, <<"C", "y">>)
CgNoTenant ==
    CoerceCaregiver([BaseCaregiverRow EXCEPT
                         !.profile_id = Str(<<"p", "4">>),
                         !.caregiver_id = Str(<<"c", "4">>),
                         !.franchisor_id = Undefined]).val

\* A caregiver with the first's profile_id and the third's caregiver_id.
CgAnnMoved == CaregiverRecord(<<"p", "1">>, <<"c", "2">>, <<"A", "n", "n">>)

\* A caregiver whose locations_id is no number (NaN after parseInt).
CgNoPlace ==
    CoerceCaregiver([BaseCaregiverRow EXCEPT
                         !.profile_id = Str(<<"p", "5">>),
                         !.caregiver_id = Str(<<"c", "5">>),
                         !.locations_id = Str(TxtWord)]).val

\* Carelogs: two with the same carelog_id, the second for a caregiver_id no
\* caregiver has; one for the second caregiver; one more for the unknown
\* caregiver_id.
ClOne == CarelogRecord(<<"l", "1">>, <<"c", "1">>, <<"d", "1">>)
ClOneOrphan == CarelogRecord(<<"l", "1">>, <<"c", "9">>, <<"d", "2">>)
ClTwo == CarelogRecord(<<"l", "2">>, <<"c", "2">>, <<"d", "1">>)
ClOrphan == CarelogRecord(<<"l", "3">>, <<"c", "9">>, <<"d", "1">>)

CaregiverLoads ==
    SeqsUpTo({CgAnn, CgAnnRenamed, CgBea, CgClash, CgNoTenant}, MaxRecs)
        \cup [1..2 -> {CgClash, CgNoPlace}]
        \cup [1..2 -> {CgAnnMoved, CgBea}]

CarelogLoads == SeqsUpTo({ClOne, ClOneOrphan, ClTwo, ClOrphan}, MaxRecs)

\* The tables a store holds when a load begins: rows that satisfy the
\* primary keys, the unique index and the foreign key.
ConsistentStore(cgs, cls) ==
    /\ \A a, b \in cgs :
           (a.profile_id = b.profile_id \/ a.caregiver_id = b.caregiver_id)
               => a = b
    /\ \A a, b \in cls : a.carelog_id = b.carelog_id => a = b
    /\ \A l \in cls : \E c \in cgs : c.caregiver_id = l.caregiver_id

StoredCaregivers == {CaregiverValues(c).val : c \in {CgAnn, CgBea}}

StoredCarelogs == {CarelogValues(c).val : c \in {ClOne, ClTwo}}

NoPrev == [result |-> "none"]

EtlOff ==
    /\ ipc = "idle"
    /\ iResult = "none"
    /\ pc = "off"
    /\ files = [caregivers |-> [st |-> "missing"],
                carelogs |-> [st |-> "missing"]]
    /\ caregiverCsvRows = <<>>
    /\ carelogCsvRows = <<>>
    /\ transformedCaregivers = <<>>
    /\ transformedCarelogs = <<>>
    /\ exitCode = 0

LoaderIdle ==
    /\ txn = NoTxn
    /\ pool = [out |-> 0, ended |-> FALSE]
    /\ lpc = "idle"
    /\ lKind = "none"
    /\ lInput = <<>>
    /\ lI = 0
    /\ lErr = "none"
    /\ lErrAt = "none"
    /\ lResult = "none"
    /\ faults = 0
    /\ lFaulted = FALSE
    /\ lStart = [caregivers |-> {}, carelogs |-> {}]
    /\ prev = NoPrev
    /\ sqlLog = <<>>

InitLoad ==
    /\ TransformIdle
    /\ LoaderIdle
    /\ EtlOff
    /\ tables = {"caregivers", "carelogs"}
    /\ caregiversTbl \in SUBSET StoredCaregivers
    /\ carelogsTbl \in SUBSET StoredCarelogs
    /\ ConsistentStore(caregiversTbl, carelogsTbl)

CallInsertCaregivers ==
    /\ lpc = "idle"
    /\ \E recs \in CaregiverLoads : EnterInsert("caregivers", recs)
    /\ UNCHANGED <<dbvars, faults, prev, sqlLog>>
    /\ UNCHANGED nonL

CallInsertCarelogs ==
    /\ lpc = "idle"
    /\ \E recs \in CarelogLoads : EnterInsert("carelogs", recs)
    /\ UNCHANGED <<dbvars, faults, prev, sqlLog>>
    /\ UNCHANGED nonL

\* The call that has ended is made again with the same records.
CallAgain ==
    /\ lpc = "done"
    /\ EnterInsert(lKind, lInput)
    /\ prev' = [result |-> lResult,
                start |-> lStart,
                caregivers |-> caregiversTbl,
                carelogs |-> carelogsTbl]
    /\ sqlLog' = <<>>
    /\ UNCHANGED <<dbvars, faults>>
    /\ UNCHANGED nonL

NextLoad ==
    \/ CallInsertCaregivers
    \/ CallInsertCarelogs
    \/ CallAgain
    \/ LoaderStep

SpecLoad == InitLoad /\ [][NextLoad]_vars

(***************************************************************************)
(* database.ts: initDatabase and closeDatabasePool.                        *)
(***************************************************************************)
\* const client = await pool.connect()   (line 21), inside the try.
InitConnect ==
    /\ ipc = "connect"
    /\ ~pool.ended
    /\ pool.out < PoolMax
    /\ \/ /\ pool' = [pool EXCEPT !.out = @ + 1]
          /\ ipc' = "createCaregivers"
          /\ UNCHANGED faults
       \/ /\ faults < MaxFaults
          /\ faults' = faults + 1
          /\ ipc' = "catch"
          /\ UNCHANGED pool
    /\ UNCHANGED <<tables, caregiversTbl, carelogsTbl, txn>>
    /\ UNCHANGED <<iResult, lFaulted, lStart, prev, sqlLog>>
    /\ UNCHANGED <<tvars, lvars, evars>>

\* One CREATE TABLE IF NOT EXISTS, awaited: the table exists afterwards;
\* a rejected statement goes to the catch block.
CreateTable(table, next) ==
    /\ \/ /\ tables' = tables \cup {table}
          /\ sqlLog' = Append(sqlLog, LogEntry("CREATE", table, <<>>, "ok"))
          /\ ipc' = next
          /\ UNCHANGED faults
       \/ /\ faults < MaxFaults
          /\ faults' = faults + 1
          /\ sqlLog' = Append(sqlLog, LogEntry("CREATE", table, <<>>, "fault"))
          /\ ipc' = "catch"
          /\ UNCHANGED tables
    /\ UNCHANGED <<caregiversTbl, carelogsTbl, txn, pool>>
    /\ UNCHANGED <<iResult, lFaulted, lStart, prev>>
    /\ UNCHANGED <<tvars, lvars, evars>>

\* Lines 23-44.
InitCreateCaregivers ==
    /\ ipc = "createCaregivers"
    /\ CreateTable("caregivers", "createCarelogs")

\* Lines 46-65.
InitCreateCarelogs ==
    /\ ipc = "createCarelogs"
    /\ CreateTable("carelogs", "release")

\* client.release() and the return (line 67).
InitRelease ==
    /\ ipc = "release"
    /\ pool' = [pool EXCEPT !.out = @ - 1]
    /\ ipc' = "done"
    /\ iResult' = "ok"
    /\ UNCHANGED <<tables, caregiversTbl, carelogsTbl, txn>>
    /\ UNCHANGED <<tvars, lvars, hvars, evars>>

\* catch (error) { console.error(...); throw error }   (lines 69-72): the
\* client, when one was connected, is not released.
InitCatch ==
    /\ ipc = "catch"
    /\ ipc' = "done"
    /\ iResult' = "threw"
    /\ UNCHANGED <<tvars, dbvars, lvars, hvars, evars>>

InitStep ==
    \/ InitConnect
    \/ InitCreateCaregivers
    \/ InitCreateCarelogs
    \/ InitRelease
    \/ InitCatch

(***************************************************************************)
(* README.md 585-683: runEtl and readCsv.                                  *)
(***************************************************************************)
\* Variant: a file that cannot be read counts as a file with no rows.
readCsvOrEmpty(file) ==
    IF file.st = "ok" THEN Return(file.rows) ELSE Return(<<>>)

\* readCsv (lines 660-683): rejects when the file does not exist or the
\* stream reports an error, resolves with the rows at the end.
readCsv(file) ==
    IF file.st = "missing" THEN Throw("File not found")
    ELSE IF file.st = "unreadable" THEN Throw("read error")
    ELSE Return(file.rows)

\* The same steps with the two loads exchanged.
RunEtlOrderCarelogsFirst ==
    <<"readCaregivers", "readCarelogs", "transformCaregivers",
      "transformCarelogs", "initDatabase", "insertCarelogs",
      "insertCaregivers">>

\* The awaited steps of the try block, in order (lines 589-639).
RunEtlOrder ==
    <<"readCaregivers", "readCarelogs", "transformCaregivers",
      "transformCarelogs", "initDatabase", "insertCaregivers",
      "insertCarelogs">>

\* The statement after `step` of the try block; after the last one (and
\* the summary, lines 641-646) the finally block.
After(step) ==
    LET n == CHOOSE m \in 1..Len(RunEtlOrder) : RunEtlOrder[m] = step
    IN IF n = Len(RunEtlOrder) THEN "finally" ELSE RunEtlOrder[n + 1]

\* Lines 591-596.
RunEtlReadCaregivers ==
    /\ pc = "readCaregivers"
    /\ LET r == readCsv(files.caregivers)
       IN IF r.thrown
          THEN pc' = "catch" /\ UNCHANGED caregiverCsvRows
          ELSE pc' = After(pc) /\ caregiverCsvRows' = r.val
    /\ UNCHANGED <<files, carelogCsvRows, transformedCaregivers,
                   transformedCarelogs, exitCode>>
    /\ UNCHANGED <<tvars, dbvars, lvars, hvars, ivars>>

\* Lines 599-604.
RunEtlReadCarelogs ==
    /\ pc = "readCarelogs"
    /\ LET r == readCsv(files.carelogs)
       IN IF r.thrown
          THEN pc' = "catch" /\ UNCHANGED carelogCsvRows
          ELSE pc' = After(pc) /\ carelogCsvRows' = r.val
    /\ UNCHANGED <<files, caregiverCsvRows, transformedCaregivers,
                   transformedCarelogs, exitCode>>
    /\ UNCHANGED <<tvars, dbvars, lvars, hvars, ivars>>

\* The transformer's locals once its result is taken.
LeaveTransform ==
    /\ tpc' = "idle"
    /\ tKind' = "none"
    /\ csvRows' = <<>>
    /\ tIdx' = 0
    /\ transformed' = <<>>
    /\ tSrc' = <<>>
    /\ tLog' = <<>>

\* transformCaregivers(caregiverCsvRows), the call (line 608).
RunEtlTransformCaregivers ==
    /\ pc = "transformCaregivers"
    /\ tpc = "idle"
    /\ EnterTransform("caregivers", caregiverCsvRows)
    /\ UNCHANGED nonT

\* const transformedCaregivers = ... (line 608): the result, or the error
\* had the function thrown.
RunEtlTransformedCaregivers ==
    /\ pc = "transformCaregivers"
    /\ tpc \in {"returned", "threw"}
    /\ IF tpc = "returned"
       THEN pc' = After(pc) /\ transformedCaregivers' = transformed
       ELSE pc' = "catch" /\ UNCHANGED transformedCaregivers
    /\ LeaveTransform
    /\ UNCHANGED <<files, caregiverCsvRows, carelogCsvRows,
                   transformedCarelogs, exitCode>>
    /\ UNCHANGED <<dbvars, lvars, hvars, ivars>>

\* transformCarelogs(carelogCsvRows), the call (line 615).
RunEtlTransformCarelogs ==
    /\ pc = "transformCarelogs"
    /\ tpc = "idle"
    /\ EnterTransform("carelogs", carelogCsvRows)
    /\ UNCHANGED nonT

\* const transformedCarelogs = ... (line 615).
RunEtlTransformedCarelogs ==
    /\ pc = "transformCarelogs"
    /\ tpc \in {"returned", "threw"}
    /\ IF tpc = "returned"
       THEN pc' = After(pc) /\ transformedCarelogs' = transformed
       ELSE pc' = "catch" /\ UNCHANGED transformedCarelogs
    /\ LeaveTransform
    /\ UNCHANGED <<files, caregiverCsvRows, carelogCsvRows,
                   transformedCaregivers, exitCode>>
    /\ UNCHANGED <<dbvars, lvars, hvars, ivars>>

\* await initDatabase(), the call (line 622).
RunEtlInitDatabase ==
    /\ pc = "initDatabase"
    /\ ipc = "idle"
    /\ ipc' = "connect"
    /\ UNCHANGED <<iResult, tvars, dbvars, lvars, hvars, evars>>

\* await initDatabase(), resumed: on to the next statement, or to the
\* catch block with the rejection.
RunEtlInitDatabaseDone ==
    /\ pc = "initDatabase"
    /\ ipc = "done"
    /\ pc' = IF iResult = "ok" THEN After(pc) ELSE "catch"
    /\ UNCHANGED <<files, caregiverCsvRows, carelogCsvRows,
                   transformedCaregivers, transformedCarelogs, exitCode>>
    /\ UNCHANGED <<tvars, dbvars, lvars, hvars, ivars>>

\* await insertCaregivers(transformedCaregivers), the call (line 629).
RunEtlInsertCaregivers ==
    /\ pc = "insertCaregivers"
    /\ lpc = "idle"
    /\ EnterInsert("caregivers", transformedCaregivers)
    /\ UNCHANGED <<dbvars, faults, prev, sqlLog>>
    /\ UNCHANGED nonL

\* await insertCarelogs(transformedCarelogs), the call (line 636).
RunEtlInsertCarelogs ==
    /\ pc = "insertCarelogs"
    /\ lpc = "idle"
    /\ EnterInsert("carelogs", transformedCarelogs)
    /\ UNCHANGED <<dbvars, faults, prev, sqlLog>>
    /\ UNCHANGED nonL

\* Variant: the rejection of a load is not looked at.
RunEtlInsertDoneIgnoringError ==
    /\ pc \in {"insertCaregivers", "insertCarelogs"}
    /\ lpc = "done"
    /\ pc' = After(pc)
    /\ lpc' = "idle"
    /\ UNCHANGED <<lKind, lInput, lI, lErr, lErrAt, lResult>>
    /\ UNCHANGED <<files, caregiverCsvRows, carelogCsvRows,
                   transformedCaregivers, transformedCarelogs, exitCode>>
    /\ UNCHANGED <<tvars, dbvars, hvars, ivars>>

\* await insertCaregivers(...) / await insertCarelogs(...), resumed.
RunEtlInsertDone ==
    /\ pc \in {"insertCaregivers", "insertCarelogs"}
    /\ lpc = "done"
    /\ pc' = IF lResult = "ok" THEN After(pc) ELSE "catch"
    /\ lpc' = "idle"
    /\ UNCHANGED <<lKind, lInput, lI, lErr, lErrAt, lResult>>
    /\ UNCHANGED <<files, caregiverCsvRows, carelogCsvRows,
                   transformedCaregivers, transformedCarelogs, exitCode>>
    /\ UNCHANGED <<tvars, dbvars, hvars, ivars>>

\* catch (error) { console.error(...); process.exit(1) }  (lines 648-650):
\* process.exit ends the process there and then; the finally block of
\* lines 651-653 is not run.
RunEtlCatch ==
    /\ pc = "catch"
    /\ pc' = "exited"
    /\ exitCode' = 1
    /\ UNCHANGED <<files, caregiverCsvRows, carelogCsvRows,
                   transformedCaregivers, transformedCarelogs>>
    /\ UNCHANGED <<tvars, dbvars, lvars, hvars, ivars>>

\* closeDatabasePool (database.ts 195-198), awaited in the finally block of
\* runEtl (lines 651-653): pool.end().
closeDatabasePool ==
    /\ pc = "finally"
    /\ pool' = [pool EXCEPT !.ended = TRUE]
    /\ pc' = "return"
    /\ UNCHANGED <<tables, caregiversTbl, carelogsTbl, txn>>
    /\ UNCHANGED <<files, caregiverCsvRows, carelogCsvRows,
                   transformedCaregivers, transformedCarelogs, exitCode>>
    /\ UNCHANGED <<tvars, lvars, hvars, ivars>>

\* runEtl has returned and nothing is left to run: the process ends with
\* status 0.
RunEtlReturn ==
    /\ pc = "return"
    /\ pc' = "exited"
    /\ exitCode' = 0
    /\ UNCHANGED <<files, caregiverCsvRows, carelogCsvRows,
                   transformedCaregivers, transformedCarelogs>>
    /\ UNCHANGED <<tvars, dbvars, lvars, hvars, ivars>>

(***************************************************************************)
(* One run of the pipeline: any two files, a new or an existing database.  *)
(***************************************************************************)
\* caregivers.csv rows: a valid row, and a row with another profile_id and
\* the same caregiver_id.
FileCaregiverRows ==
    {BaseCaregiverRow,
     [BaseCaregiverRow EXCEPT !.profile_id = Str(<<"p", "3">>),
                              !.first_name = Str(<<"C", "y">>)]}

\* carelogs.csv rows: a visit of the caregiver of the valid row, and a
\* visit of a caregiver_id no caregiver has.
FileCarelogRows ==
    {BaseCarelogRow,
     [BaseCarelogRow EXCEPT !.carelog_id = Str(<<"l", "3">>),
                            !.caregiver_id = Str(<<"c", "9">>)]}

CsvFiles(rows) ==
    {[st |-> "missing"], [st |-> "unreadable"]} \cup
    {[st |-> "ok", rows |-> r] : r \in SeqsUpTo(rows, MaxFileRows)}

Init ==
    /\ TransformIdle
    /\ LoaderIdle
    /\ ipc = "idle"
    /\ iResult = "none"
    /\ pc = "readCaregivers"
    /\ files \in [caregivers : CsvFiles(FileCaregiverRows),
                  carelogs : CsvFiles(FileCarelogRows)]
    /\ caregiverCsvRows = <<>>
    /\ carelogCsvRows = <<>>
    /\ transformedCaregivers = <<>>
    /\ transformedCarelogs = <<>>
    /\ exitCode = 0
    /\ carelogsTbl = {}
    /\ \/ tables = {} /\ caregiversTbl = {}
       \/ /\ tables = {"caregivers", "carelogs"}
          /\ caregiversTbl \in {{}, {CaregiverValues(CgAnn).val}}

Next ==
    \/ RunEtlReadCaregivers
    \/ RunEtlReadCarelogs
    \/ RunEtlTransformCaregivers
    \/ TransformCaregiversRow
    \/ RunEtlTransformedCaregivers
    \/ RunEtlTransformCarelogs
    \/ TransformCarelogsRow
    \/ TransformReturn
    \/ RunEtlTransformedCarelogs
    \/ RunEtlInitDatabase
    \/ InitStep
    \/ RunEtlInitDatabaseDone
    \/ RunEtlInsertCaregivers
    \/ RunEtlInsertCarelogs
    \/ LoaderStep
    \/ RunEtlInsertDone
    \/ RunEtlCatch
    \/ closeDatabasePool
    \/ RunEtlReturn

Spec == Init /\ [][Next]_vars

(***************************************************************************)
(* The transformer on its own.                                             *)
(***************************************************************************)
InitTransform ==
    /\ TransformIdle
    /\ LoaderIdle
    /\ EtlOff
    /\ tables = {}
    /\ caregiversTbl = {}
    /\ carelogsTbl = {}

NextTransform ==
    \/ CallTransformCaregivers
    \/ CallTransformCarelogs
    \/ TransformCaregiversRow
    \/ TransformCarelogsRow
    \/ TransformReturn

SpecTransform == InitTransform /\ [][NextTransform]_vars

(***************************************************************************)
(* Properties of the transformer (under SpecTransform).                    *)
(***************************************************************************)
\* The coercion the running transform function applies to a row.
CoerceOf(kind, row) ==
    IF kind = "caregivers" THEN CoerceCaregiver(row) ELSE CoerceCarelog(row)

\* A value that is a valid Date.
IsValidDate(v) == v.k = "date" /\ v.valid

\* A raw cell that is text which is not blank, not "None" and no date.
Unparsable(v) ==
    /\ v.k = "str"
    /\ Trim(v.s) # <<>>
    /\ v.s # TxtNone
    /\ ~NewDate(v.s).valid

\* A raw timestamp cell that is absent, empty, white space only, "None" or
\* unparsable.
BadTimestamp(v) ==
    \/ v = Undefined
    \/ v = Str(TxtEmpty)
    \/ (v.k = "str" /\ Trim(v.s) = <<>>)
    \/ v = Str(TxtNone)
    \/ Unparsable(v)

\* The carelog rows the transform drops: a bad required timestamp, or an
\* optional timestamp that is unparsable.
DroppedCarelogRow(row) ==
    \/ BadTimestamp(row.start_datetime)
    \/ BadTimestamp(row.end_datetime)
    \/ Unparsable(row.clock_in_actual_datetime)
    \/ Unparsable(row.clock_out_actual_datetime)

\* C6: every record transformCarelogs holds has valid start_datetime and
\* end_datetime; no record comes from a row whose start_datetime or
\* end_datetime is absent, empty, white space only, "None" or unparsable;
\* and the logged kept count is the total less one per dropped row.
C6_RequiredTimestamps ==
    tKind = "carelogs" =>
        /\ \A n \in 1..Len(transformed) :
               /\ IsValidDate(transformed[n].start_datetime)
               /\ IsValidDate(transformed[n].end_datetime)
               /\ ~BadTimestamp(csvRows[tSrc[n]].start_datetime)
               /\ ~BadTimestamp(csvRows[tSrc[n]].end_datetime)
        /\ tpc = "returned" =>
               /\ \A n \in 1..Len(csvRows) :
                      (\/ BadTimestamp(csvRows[n].start_datetime)
                       \/ BadTimestamp(csvRows[n].end_datetime))
                          => ~(\E m \in 1..Len(tSrc) : tSrc[m] = n)
               /\ tLog = <<Len(transformed), Len(csvRows)>>
               /\ tLog[1] = tLog[2] - Cardinality(
                      {n \in 1..Len(csvRows) : DroppedCarelogRow(csvRows[n])})

\* C6 witness: three carelog rows, one with start_datetime "None", one with
\* an unparsable end_datetime, and one record kept.
C6_Witness ==
    /\ tKind = "carelogs"
    /\ tpc = "returned"
    /\ Len(csvRows) = 3
    /\ \E n \in 1..3 : csvRows[n].start_datetime = Str(TxtNone)
    /\ \E n \in 1..3 : csvRows[n].end_datetime = Str(TxtBadMonth)
    /\ tLog = <<1, 3>>

\* The records of the rows whose coercion completes, in row order.
RECURSIVE KeptRecords(_, _)
KeptRecords(kind, rows) ==
    IF rows = <<>> THEN <<>>
    ELSE LET c == CoerceOf(kind, Head(rows))
         IN (IF c.thrown THEN <<>> ELSE <<c.val>>)
                \o KeptRecords(kind, Tail(rows))

\* C7: a transform function never throws to its caller; it returns only
\* after every row was processed, and what it returns is what the rows whose
\* coercion completes yield, each by itself: a row whose coercion raises
\* adds nothing and takes nothing away.
C7_RowErrorIsolation ==
    /\ tpc # "threw"
    /\ tpc = "returned" =>
           /\ tIdx = Len(csvRows)
           /\ transformed = KeptRecords(tKind, csvRows)

\* C7 witness: the first of three rows raises and the two after it are
\* emitted.
C7_Witness ==
    /\ tpc = "returned"
    /\ Len(csvRows) = 3
    /\ CoerceOf(tKind, csvRows[1]).thrown
    /\ tSrc = <<2, 3>>

\* C8: the output is an order-preserving subsequence of the input: there
\* are strictly increasing row positions, one per output record, of which
\* each record is the coercion.
C8_OrderPreserved ==
    tpc \in {"loop", "returned"} =>
        \E f \in [1..Len(transformed) -> 1..Len(csvRows)] :
            /\ \A m, n \in 1..Len(transformed) : m < n => f[m] < f[n]
            /\ \A n \in 1..Len(transformed) :
                   /\ f[n] <= tIdx
                   /\ CoerceOf(tKind, csvRows[f[n]]) = Return(transformed[n])

\* C8 witness: of three rows the second is omitted, and the two records
\* kept differ.
C8_Witness ==
    /\ tpc = "returned"
    /\ Len(csvRows) = 3
    /\ tSrc = <<1, 3>>
    /\ transformed[1] # transformed[2]

\* A present (non-empty) identity value.
Present(v) == v.k = "str" /\ v.s # <<>>

\* C9: every record transformCaregivers holds has a present profile_id and
\* a present caregiver_id.
C9_IdentityPresent ==
    tKind = "caregivers" =>
        \A n \in 1..Len(transformed) :
            /\ Present(transformed[n].profile_id)
            /\ Present(transformed[n].caregiver_id)

(***************************************************************************)
(* Properties of the loader (under SpecLoad).                              *)
(***************************************************************************)
\* The committed tables.
Store == [caregivers |-> caregiversTbl, carelogs |-> carelogsTbl]

\* C1: when a load that succeeded is made again with the same records, the
\* committed tables stay, throughout the second call, what the first call
\* left, and the second call resolves unless the connection or a statement
\* is failed from outside.
C1_IdempotentLoad ==
    prev.result = "ok" =>
        /\ caregiversTbl = prev.caregivers
        /\ carelogsTbl = prev.carelogs
        /\ (lpc = "done" /\ ~lFaulted) => lResult = "ok"

\* C1 witness: three caregivers, two of them with the same profile_id,
\* loaded into empty tables and loaded again: two rows after both loads.
C1_Witness ==
    /\ lpc = "done"
    /\ prev.result = "ok"
    /\ lResult = "ok"
    /\ lInput = <<CgAnn, CgBea, CgAnnRenamed>>
    /\ prev.start.caregivers = {}
    /\ Cardinality(caregiversTbl) = 2
    /\ Len(sqlLog) = 4

\* Record n of the load is a carelog whose caregiver_id no row of the
\* caregivers table has.
OrphanAt(n) ==
    /\ lKind = "carelogs"
    /\ n \in 1..Len(lInput)
    /\ ~(\E cg \in lStart.caregivers :
             cg.caregiver_id = SqlParam(lInput[n].caregiver_id))

\* Record n of the load has a carelog_id that no stored carelog and no
\* earlier record of the load has.
NewCarelogAt(n) ==
    /\ ~(\E old \in lStart.carelogs :
             old.carelog_id = SqlParam(lInput[n].carelog_id))
    /\ ~(\E m \in 1..(n - 1) : lInput[m].carelog_id = lInput[n].carelog_id)

\* The call has thrown and the committed tables are those it began with.
ThrewAndRolledBack ==
    /\ lResult = "threw"
    /\ lErr # "none"
    /\ txn = NoTxn
    /\ Store = lStart

\* C2, for every orphan: a load holding a carelog whose caregiver_id matches no
\* caregiver fails, is rolled back and throws.
C2_OrphanAlwaysFails ==
    (lpc = "done" /\ \E n \in 1..Len(lInput) : OrphanAt(n))
        => ThrewAndRolledBack

\* C2, for an orphan with a new carelog_id: a load holding a carelog whose caregiver_id matches no
\* caregiver, and whose carelog_id is neither stored already nor that of an
\* earlier record of the load, fails, is rolled back and throws.
C2_NewOrphanFails ==
    (lpc = "done" /\ \E n \in 1..Len(lInput) : OrphanAt(n) /\ NewCarelogAt(n))
        => ThrewAndRolledBack

\* C2 witness: the third record, alone in the second batch, is an orphan
\* with a new carelog_id; its statement fails on the foreign key.
C2_Witness ==
    /\ lpc = "done"
    /\ OrphanAt(3)
    /\ NewCarelogAt(3)
    /\ lI = BATCH_SIZE
    /\ lErr = "foreign_key_violation"
    /\ lErrAt = "insert"
    /\ lResult = "threw"

\* Record n of the load has its primary key in the committed table.
KeyStored(n) ==
    IF lKind = "caregivers"
    THEN \E row \in caregiversTbl :
             row.profile_id = SqlParam(lInput[n].profile_id)
    ELSE \E row \in carelogsTbl :
             row.carelog_id = SqlParam(lInput[n].carelog_id)

\* C3: when the INSERT of a batch after the first fails, the records of the
\* batches before it are in the committed table once the call has ended.
C3_EarlierBatchesPersist ==
    (lpc = "done" /\ lResult = "threw" /\ lErrAt = "insert" /\ lI > 0)
        => \A n \in 1..lI : KeyStored(n)

\* C10: whatever a load does and however it ends, every row the tables held
\* when it began is still there, the same in every column, in the committed
\* table and in the transaction's working table; and no second row with a
\* stored row's primary key appears beside it.
C10_ExistingRowWins ==
    /\ lStart.caregivers \subseteq caregiversTbl
    /\ lStart.carelogs \subseteq carelogsTbl
    /\ txn.st = "open" =>
           /\ lStart.caregivers \subseteq txn.caregivers
           /\ lStart.carelogs \subseteq txn.carelogs
    /\ \A a, b \in caregiversTbl : a.profile_id = b.profile_id => a = b
    /\ \A a, b \in carelogsTbl : a.carelog_id = b.carelog_id => a = b

\* C10 witness: the table holds Ann's row, a load carries a record with her
\* profile_id and another name beside a new caregiver, and it succeeds.
C10_Witness ==
    /\ lpc = "done"
    /\ lResult = "ok"
    /\ CaregiverValues(CgAnn).val \in lStart.caregivers
    /\ \E n \in 1..Len(lInput) : lInput[n] = CgAnnRenamed
    /\ caregiversTbl # lStart.caregivers

(***************************************************************************)
(* Properties of a run of the pipeline (Spec).                             *)
(***************************************************************************)
\* The statements of the log that write to `table`.
IsInsert(n, table) ==
    sqlLog[n].op = "INSERT" /\ sqlLog[n].table = table

\* C4 (load ordering): no INSERT is issued before initDatabase has resolved
\* with both tables created; every INSERT INTO carelogs is issued after the
\* COMMIT of the caregiver load has succeeded, and once a statement of the
\* carelog load has been issued no statement of the caregiver load follows.
C4_LoadOrdering ==
    /\ (\E n \in 1..Len(sqlLog) : sqlLog[n].op = "INSERT") =>
           /\ ipc = "done"
           /\ iResult = "ok"
           /\ {"caregivers", "carelogs"} \subseteq tables
    /\ \A n \in 1..Len(sqlLog) :
           sqlLog[n].op = "INSERT" =>
               \A t \in {"caregivers", "carelogs"} :
                   \E m \in 1..(n - 1) :
                       sqlLog[m] = LogEntry("CREATE", t, <<>>, "ok")
    /\ \A n \in 1..Len(sqlLog) :
           IsInsert(n, "carelogs") =>
               \E m \in 1..(n - 1) :
                   sqlLog[m] = LogEntry("COMMIT", "caregivers", <<>>, "ok")
    /\ \A n \in 1..Len(sqlLog) :
           (sqlLog[n].op # "CREATE" /\ sqlLog[n].table = "carelogs") =>
               \A m \in (n + 1)..Len(sqlLog) :
                   sqlLog[m].table # "caregivers"

\* A run that wrote to both tables and ended with status 0.
C4_Witness ==
    /\ pc = "exited"
    /\ exitCode = 0
    /\ \E n \in 1..Len(sqlLog) :
           IsInsert(n, "caregivers") /\ sqlLog[n].res = "ok"
    /\ \E n \in 1..Len(sqlLog) :
           IsInsert(n, "carelogs") /\ sqlLog[n].res = "ok"

\* C5 (pool release on every exit path): when the process has exited,
\* closeDatabasePool has been invoked, so the pool is ended.
C5_PoolReleasedBeforeExit ==
    pc = "exited" => pool.ended

\* A statement of the log that the server or the connection refused.
Failed(n) == sqlLog[n].res # "ok"

\* C11 (fail-stop): when initDatabase has thrown, no statement of a load is
\* ever issued and no load is started; after an INSERT that failed, the only
\* statement that follows is the ROLLBACK of the same load, no other load
\* is started, the load rejects, and the run ends with status 1.
C11_FailStop ==
    /\ iResult = "threw" =>
           /\ \A n \in 1..Len(sqlLog) : sqlLog[n].op = "CREATE"
           /\ lpc = "idle"
           /\ lKind = "none"
           /\ pc \in {"initDatabase", "catch", "exited"}
           /\ pc = "exited" => exitCode = 1
    /\ \A n \in 1..Len(sqlLog) :
           (sqlLog[n].op = "INSERT" /\ Failed(n)) =>
               /\ \A m \in (n + 1)..Len(sqlLog) :
                      /\ sqlLog[m].op = "ROLLBACK"
                      /\ sqlLog[m].table = sqlLog[n].table
               /\ lKind = sqlLog[n].table
               /\ lpc = "done" => lResult = "threw"
               /\ pc \in {"insertCaregivers", "insertCarelogs", "catch",
                          "exited"}
               /\ pc = "insertCarelogs" => sqlLog[n].table = "carelogs"
               /\ pc = "exited" => exitCode = 1

\* C11 witness: the first of two caregiver batches was refused by the
\* server, the second was never sent, and the run has ended.
C11_Witness ==
    /\ pc = "exited"
    /\ exitCode = 1
    /\ lKind = "caregivers"
    /\ Len(lInput) > BATCH_SIZE
    /\ lI = 0
    /\ \E n \in 1..Len(sqlLog) :
           sqlLog[n].op = "INSERT" /\ sqlLog[n].res = "error"

(***************************************************************************)
(* Properties of the coercion of single fields (under SpecTransform).      *)
(***************************************************************************)
\* The nullable string fields of the records of the transform function
\* now running.
NullableStrings ==
    IF tKind = "caregivers"
    THEN {"subdomain", "external_id", "first_name", "last_name", "email",
          "phone_number", "gender", "location_name", "applicant_status"}
    ELSE IF tKind = "carelogs" THEN {"parent_id", "documentation"}
    ELSE {}

\* A raw value that stands for no value: absent, empty, or "None".
NoValue(v) == v = Undefined \/ v = Str(TxtEmpty) \/ v = Str(TxtNone)

\* C12 (string-or-null coercion): in every record held, a nullable string
\* field is null when the raw cell was absent, empty or "None", and is the
\* raw string otherwise.
C12_StringOrNull ==
    \A n \in 1..Len(transformed) :
        \A f \in NullableStrings :
            LET raw == csvRows[tSrc[n]][f]
            IN transformed[n][f] = IF NoValue(raw) THEN Null ELSE raw

\* The integer fields of the records of the transform function now running
\* (status is an integer in a Carelog, a string in a Caregiver).
IntegerFields ==
    IF tKind = "caregivers" THEN {"locations_id"}
    ELSE IF tKind = "carelogs"
    THEN {"clock_in_method", "clock_out_method", "status",
          "general_comment_char_count"}
    ELSE {}

\* C13 (non-numeric integers reject the row): no record held carries NaN in
\* an integer field.
C13_NoInvalidNumber ==
    \A n \in 1..Len(transformed) :
        \A f \in IntegerFields : transformed[n][f] # NaN

\* A raw date cell that holds no date: absent, empty, white space only or
\* "None".
NoDate(v) ==
    \/ v = Undefined
    \/ (v.k = "str" /\ (Trim(v.s) = <<>> \/ v.s = TxtNone))

C15_ZeroLocationIsNull ==
    tKind = "caregivers" =>
        \A n \in 1..Len(transformed) : transformed[n].locations_id # Num(0)

(***************************************************************************)
(* A load as a function of its batches (database.ts 80-129, 142-188): the  *)
(* statements of the loop in one transaction, with no connection fault.    *)
(***************************************************************************)
\* The slices the loop of lines 82-83 takes from recs with batch size
\* `size`, in order.
Batches(recs, size) ==
    [k \in 1..((Len(recs) + size - 1) \div size) |->
        Slice(recs, (k - 1) * size, k * size)]

\* The INSERT statements of a sequence of batches on working tables w: the
\* working tables after the last one, or the first error.
RECURSIVE InsertBatchList(_, _, _)
InsertBatchList(kind, batches, w) ==
    IF batches = <<>> THEN [ok |-> TRUE, w |-> w]
    ELSE LET values == BatchValues(kind, Head(batches))
         IN IF values.thrown THEN [ok |-> FALSE, err |-> values.err]
            ELSE LET r == ExecInsert(kind, w, values.val)
                 IN IF ~r.ok THEN r
                    ELSE InsertBatchList(kind, Tail(batches), r.w)

\* BEGIN, the batches, then COMMIT, or ROLLBACK and the error rethrown: the
\* result of the call and the committed tables after it.
LoadOf(kind, batches, store) ==
    LET r == InsertBatchList(kind, batches,
                 [st |-> "open", caregivers |-> store.caregivers,
                  carelogs |-> store.carelogs])
    IN IF r.ok
       THEN [result |-> "ok", err |-> "none",
             store |-> [caregivers |-> r.w.caregivers,
                        carelogs |-> r.w.carelogs]]
       ELSE [result |-> "threw", err |-> r.err, store |-> store]

\* What the call that has ended did.
Outcome == [result |-> lResult, err |-> lErr, store |-> Store]

(***************************************************************************)
(* Batch order and batch size (under SpecLoad).                            *)
(***************************************************************************)
BatchOrders(k) ==
    {f \in [1..k -> 1..k] : \A i, j \in 1..k : i # j => f[i] # f[j]}

Permuted(batches, f) == [k \in 1..Len(batches) |-> batches[f[k]]]

\* Whether the load succeeded, and the tables it left.
SameEffect(a, b) == a.result = b.result /\ a.store = b.store

\* Two records of different batches that carry the same primary key are the
\* same record.
KeysAgreeAcrossBatches(kind, batches) ==
    \A a, b \in 1..Len(batches) :
        a # b =>
            \A m \in 1..Len(batches[a]), n \in 1..Len(batches[b]) :
                LET r == batches[a][m]
                    q == batches[b][n]
                IN SqlParam(r[PrimaryKey(kind)]) = SqlParam(q[PrimaryKey(kind)])
                       => r = q

\* C16, for every record sequence: a load that met no connection fault
\* succeeded or failed, and left the tables, as the load of its batches in
\* any other order does.
C16_AnyBatchOrder ==
    (lpc = "done" /\ ~lFaulted) =>
        \A f \in BatchOrders(Len(Batches(lInput, BATCH_SIZE))) :
            SameEffect(Outcome,
                LoadOf(lKind, Permuted(Batches(lInput, BATCH_SIZE), f),
                       lStart))

\* C16, for record sequences whose batches do not disagree on a key: a load
\* that met no connection fault did what the loop of its batches in order
\* does, and, when no primary key comes with two different records in two
\* batches, succeeded or failed and left the tables as the load of its
\* batches in any other order does.
C16_BatchOrderAgreedKeys ==
    (lpc = "done" /\ ~lFaulted) =>
        LET batches == Batches(lInput, BATCH_SIZE)
        IN /\ Outcome = LoadOf(lKind, batches, lStart)
           /\ KeysAgreeAcrossBatches(lKind, batches) =>
                  \A f \in BatchOrders(Len(batches)) :
                      SameEffect(Outcome,
                          LoadOf(lKind, Permuted(batches, f), lStart))

\* C16 witness: a caregiver load of two batches with three different keys
\* failed in its second batch; its batches in the other order fail in the
\* first.
C16_Witness ==
    /\ lpc = "done"
    /\ ~lFaulted
    /\ lKind = "caregivers"
    /\ lInput = <<CgAnn, CgBea, CgNoTenant>>
    /\ lResult = "threw"
    /\ lI = BATCH_SIZE

\* The positive batch sizes that cut the records of the call differently:
\* one record at a time up to all of them in one statement.
BatchSizes == 1..(Len(lInput) + 1)

FileAccessError ==
    files.caregivers.st # "ok" \/ files.carelogs.st # "ok"

\* C18 (file-access errors are fatal before any write), under Spec: when a
\* source file is absent or unreadable, the run never gets past the reading
\* of the files, initDatabase and the loads are never started, no statement
\* is sent, no connection is taken, and the run can only end with status 1.
C18_FileErrorBeforeAnyWrite ==
    FileAccessError =>
        /\ pc \in {"readCaregivers", "readCarelogs", "catch", "exited"}
        /\ ipc = "idle"
        /\ lpc = "idle"
        /\ lKind = "none"
        /\ sqlLog = <<>>
        /\ pool.out = 0
        /\ txn = NoTxn
        /\ pc = "exited" => exitCode = 1

\* C18 witness: caregivers.csv was read, carelogs.csv is unreadable, and the
\* run has ended with status 1.
C18_Witness ==
    /\ files.caregivers.st = "ok"
    /\ files.carelogs.st = "unreadable"
    /\ caregiverCsvRows # <<>>
    /\ pc = "exited"
    /\ exitCode = 1

\* C19 (connection release): whenever initDatabase and the loads are not
\* running (not yet called, returned, or thrown), no connection is checked
\* out of the pool.
C19_NoConnectionHeld ==
    (ipc \in {"idle", "done"} /\ lpc \in {"idle", "done"}) => pool.out = 0

(***************************************************************************)
(* The statements of one load (under SpecLoad, where the log holds the     *)
(* statements of the call in progress).                                    *)
(***************************************************************************)
IsInsertEntry(e) == e.op = "INSERT"

\* The INSERT statements the call has issued, in order.
InsertsIssued == SelectSeq(sqlLog, IsInsertEntry)

\* ceil(n / BATCH_SIZE)
BatchCount(n) == (n + BATCH_SIZE - 1) \div BATCH_SIZE

\* The rows of records BATCH_SIZE*(k-1)+1 .. min(BATCH_SIZE*k, n) of the
\* input, in input order.
RowsOfBatch(k) ==
    LET first == BATCH_SIZE * (k - 1) + 1
        last == IF BATCH_SIZE * k < Len(lInput) THEN BATCH_SIZE * k
                ELSE Len(lInput)
    IN [j \in 1..(last - first + 1) |->
           IF lKind = "caregivers"
           THEN CaregiverValues(lInput[first + j - 1]).val
           ELSE CarelogValues(lInput[first + j - 1]).val]

\* C20, for every load: once a call that met no connection fault has
\* ended, it has issued exactly ceil(n / BATCH_SIZE) INSERT statements.
C20_AlwaysAllBatches ==
    (lpc = "done" /\ ~lFaulted) =>
        Len(InsertsIssued) = BatchCount(Len(lInput))

\* C20, for the statements issued and for loads that resolve: the k-th
\* INSERT issued carries records BATCH_SIZE*(k-1)+1 .. min(BATCH_SIZE*k, n)
\* in input order, is not empty and holds at most BATCH_SIZE records; only
\* the last statement issued can have failed; there are never more than
\* ceil(n / BATCH_SIZE) statements, exactly that many when the call
\* resolves, and none for an empty input.
C20_ContiguousBatches ==
    /\ Len(InsertsIssued) <= BatchCount(Len(lInput))
    /\ \A k \in 1..Len(InsertsIssued) :
           /\ InsertsIssued[k].rows = RowsOfBatch(k)
           /\ Len(InsertsIssued[k].rows) \in 1..BATCH_SIZE
           /\ k < Len(InsertsIssued) => InsertsIssued[k].res = "ok"
    /\ (lpc = "done" /\ lResult = "ok") =>
           Len(InsertsIssued) = BatchCount(Len(lInput))
    /\ lInput = <<>> => InsertsIssued = <<>>

\* C20 witness: a load of three records resolved after two INSERT
\* statements, the second with one record.
C20_Witness ==
    /\ lpc = "done"
    /\ lResult = "ok"
    /\ Len(lInput) = BATCH_SIZE + 1
    /\ Len(InsertsIssued) = 2
    /\ Len(InsertsIssued[2].rows) = 1

(***************************************************************************)
(* A load call as a whole (under SpecLoad).                                *)
(***************************************************************************)
\* The committed table the call writes to, now and when the call began.
TableNow == IF lKind = "caregivers" THEN caregiversTbl ELSE carelogsTbl

TableAtStart ==
    IF lKind = "caregivers" THEN lStart.caregivers ELSE lStart.carelogs

\* The row record n of the input is sent as.
RowOfRecord(n) ==
    IF lKind = "caregivers" THEN CaregiverValues(lInput[n]).val
    ELSE CarelogValues(lInput[n]).val

\* The primary key of record n was stored when its turn came: in the table
\* before the call, or by a record before it in the same call.
KeyAlreadyStored(n) ==
    \/ \E old \in TableAtStart :
           old[PrimaryKey(lKind)] = RowOfRecord(n)[PrimaryKey(lKind)]
    \/ \E m \in 1..(n - 1) :
           RowOfRecord(m)[PrimaryKey(lKind)] = RowOfRecord(n)[PrimaryKey(lKind)]

ProfileNotStored(n) ==
    ~(\E old \in TableAtStart : old.profile_id = RowOfRecord(n).profile_id)

\* Record n has the caregiver_id of a stored row.
CaregiverIdStored(n) ==
    \E old \in TableAtStart : old.caregiver_id = RowOfRecord(n).caregiver_id

\* Records m and n of the call have different profile_ids and the same
\* caregiver_id.
SharesCaregiverId(m, n) ==
    /\ m # n
    /\ RowOfRecord(m).profile_id # RowOfRecord(n).profile_id
    /\ RowOfRecord(m).caregiver_id = RowOfRecord(n).caregiver_id

\* A record, under a profile_id that is not stored, with the caregiver_id of
\* a stored row or of another record of the call under another profile_id.
ClashingRecord(n) ==
    /\ ProfileNotStored(n)
    /\ \/ CaregiverIdStored(n)
       \/ \E m \in 1..Len(lInput) : SharesCaregiverId(m, n)

\* The same, where the record, and the other record of the call, are ones
\* whose key is not already stored when their turn comes.
ClashingInsertedRecord(n) ==
    /\ ~KeyAlreadyStored(n)
    /\ \/ CaregiverIdStored(n)
       \/ \E m \in 1..Len(lInput) :
              SharesCaregiverId(m, n) /\ ~KeyAlreadyStored(m)

\* No record of the call is refused for a reason of its own.
RowsWellFormed ==
    \A n \in 1..Len(lInput) :
        /\ ~NullViolation(lKind, RowOfRecord(n))
        /\ ~BadInput(lKind, RowOfRecord(n))

\* C22, for every clashing record: a caregiver load that met no connection
\* fault and held a clashing record has thrown and left the tables as they
\* were.
C22_ClashAlwaysFails ==
    (/\ lpc = "done"
     /\ ~lFaulted
     /\ lKind = "caregivers"
     /\ \E n \in 1..Len(lInput) : ClashingRecord(n)) =>
        ThrewAndRolledBack

\* C22, for clashing records that are inserted: a caregiver load holding a
\* record whose key is not already stored when its turn comes, and whose
\* caregiver_id is that of a stored row or of another such record under
\* another profile_id, has thrown and left the tables as they were; the
\* error is the uniqueness violation when no record is refused for a reason
\* of its own and the connection did not fail.
C22_InsertedClashFails ==
    (/\ lpc = "done"
     /\ lKind = "caregivers"
     /\ \E n \in 1..Len(lInput) : ClashingInsertedRecord(n)) =>
        /\ ThrewAndRolledBack
        /\ (RowsWellFormed /\ ~lFaulted) => lErr = "unique_violation"

\* C22 witness: Ann's row is stored; a load of Bea and then a record with
\* Ann's caregiver_id under a new profile_id is refused with a uniqueness
\* violation, and Bea is not stored.
C22_Witness ==
    /\ lpc = "done"
    /\ lKind = "caregivers"
    /\ lInput = <<CgBea, CgClash>>
    /\ lStart.caregivers = {CaregiverValues(CgAnn).val}
    /\ lErr = "unique_violation"
    /\ lResult = "threw"
    /\ caregiversTbl = lStart.caregivers

=============================================================================
